---- MODULE Spec2Model ----
(***************************************************************************)
(* Measured real numbers (RealNumberLibrary.py): rational approximants    *)
(* paired with a modulus of convergence, the arithmetic combinators        *)
(* bish/addB/subB/mulB/divB/sinB and the Taylor evaluator R/P/sinQ.         *)
(*                                                                         *)
(* A rational is a pair <<num, den>> in lowest terms with den > 0, as a    *)
(* fractions.Fraction is.  The pair <<0, 0>> stands for a raised           *)
(* ZeroDivisionError: it is not a rational and propagates through every    *)
(* operation until a try/except of the code catches it.                    *)
(***************************************************************************)
EXTENDS Integers, Sequences, FiniteSets, TLC

\* ------------------------------------------------------------------ bounds
\* largest numerator of a point q handed to sinQ / P
MaxQNum == 2
\* cap on the loop counter of R (the code has none)
MaxN == 11
\* largest order handed to P directly
MaxP == 6
\* approximants are queried at the indices 1..MaxIdx
MaxIdx == 4
\* test doubles converge to the limits 0..MaxLimit
MaxLimit == 3
\* sinB is applied to test doubles with limit 0..MaxSinLimit
MaxSinLimit == 1

\* --------------------------------------------------- fractions.Fraction
ZDE == <<0, 0>>

Raised(v) == v[2] = 0

Abs(i) == IF i < 0 THEN -i ELSE i

\* Euclid's algorithm; each step's pair is computed once, as a value
RECURSIVE Gcd(_, _)
Gcd(i, j) ==
    IF j = 0 THEN i
    ELSE CHOOSE g \in {Gcd(pr[1], pr[2]) : pr \in {<<j, i % j>>}} : TRUE

\* Fraction(num, den): lowest terms, sign on the numerator
fr(num, den) ==
    IF den = 0 THEN ZDE
    ELSE LET g == Gcd(Abs(num), Abs(den))
             s == IF den < 0 THEN -1 ELSE 1
         IN  <<s * (num \div g), s * (den \div g)>>

FrAdd(u, v) ==
    IF Raised(u) \/ Raised(v) THEN ZDE
    ELSE LET g == Gcd(u[2], v[2])
         IN  fr(u[1] * (v[2] \div g) + v[1] * (u[2] \div g), (u[2] \div g) * v[2])

FrNeg(u) == IF Raised(u) THEN ZDE ELSE <<-u[1], u[2]>>

FrSub(u, v) == FrAdd(u, FrNeg(v))

FrMul(u, v) ==
    IF Raised(u) \/ Raised(v) THEN ZDE
    ELSE LET g1 == Gcd(Abs(u[1]), v[2])
             g2 == Gcd(Abs(v[1]), u[2])
         IN  fr((u[1] \div g1) * (v[1] \div g2), (u[2] \div g2) * (v[2] \div g1))

\* u / v raises ZeroDivisionError when v is zero
FrDiv(u, v) ==
    IF Raised(u) \/ Raised(v) THEN ZDE
    ELSE IF v[1] = 0 THEN ZDE
    ELSE FrMul(u, fr(v[2], v[1]))

RECURSIVE IntPow(_, _)
IntPow(b, e) == IF e = 0 THEN 1 ELSE b * IntPow(b, e - 1)

\* q ** e for an int e >= 0
FrPow(u, e) == IF Raised(u) THEN ZDE ELSE <<IntPow(u[1], e), IntPow(u[2], e)>>

FrLt(u, v) ==
    LET g == Gcd(u[2], v[2])
    IN  u[1] * (v[2] \div g) < v[1] * (u[2] \div g)

FrLe(u, v) == u = v \/ FrLt(u, v)

FrGe(u, v) == ~FrLt(u, v)

FrAbs(u) == <<Abs(u[1]), u[2]>>

\* math.ceil and the floor of a rational
Ceil(u) == -((-u[1]) \div u[2])

Floor(u) == u[1] \div u[2]

\* math.factorial
RECURSIVE fact(_)
fact(m) == IF m = 0 THEN 1 ELSE m * fact(m - 1)

\* ------------------------------------------------- RealNumberLibrary.py
\* sinDeriv(n): the n-th derivative of sine at zero
sinDeriv(m) == <<0, 1, 0, -1>>[(m % 4) + 1]

\* P(n, q): PSum starts at 0; for k in range(0, n): PSum += q * fr(sinDeriv(k), fact(k))
RECURSIVE PLoop(_, _, _, _)
PLoop(m, x, i, PSum) ==
    IF i < m
    THEN PLoop(m, x, i + 1, FrAdd(PSum, FrMul(x, fr(sinDeriv(i), fact(i)))))
    ELSE PSum

P(m, x) == PLoop(m, x, 0, fr(0, 1))

\* R(q, eps): "R = eps + 1", "while (R >= eps)", "R = q**(n+1) * fr(1, fact(n+1))"
RStart(e) == FrAdd(e, fr(1, 1))

RCond(rem, e) == FrGe(rem, e)

RBody_NoFactorial(x, m) == FrPow(x, m + 1)

RBody(x, m) == FrMul(FrPow(x, m + 1), fr(1, fact(m + 1)))

RECURSIVE RLoop(_, _, _, _)
RLoop(x, e, m, rem) ==
    IF RCond(rem, e) THEN RLoop(x, e, m + 1, RBody(x, m)) ELSE m

R(x, e) == RLoop(x, e, 0, RStart(e))

\* sinQ(q, eps): n = R(q, eps); return P(n, q)
sinQ(x, e) == P(R(x, e), x)

\* ------------------------------------------------------ measured reals
\* A measured real, the pair (x, k), is the record [x |-> ..., k |-> ...] of
\* the two closures' tables: x over the arguments the model calls it with,
\* k over the error bounds.  A modulus value is the rational <<i, 1>>.
Idx == 1..MaxIdx

IdxArgs == {fr(i, 1) : i \in Idx}

PosEps == {fr(1, 10), fr(1, 5), fr(1, 2), fr(1, 1), fr(2, 1)}

Args == IdxArgs \cup PosEps

\* bish(r): x(n) = r, k(eps) = 0
bish_ModulusOne(r) == [x |-> [t \in Args |-> r], k |-> [e \in PosEps |-> fr(1, 1)]]

bish(r) == [x |-> [t \in Args |-> r], k |-> [e \in PosEps |-> fr(0, 1)]]

\* "except ZeroDivisionError: return fr(0,1)"
Catch_Propagate(v) == v

Catch(v) == IF Raised(v) THEN fr(0, 1) ELSE v

\* addB(a, b): z(n) = x(n) + y(n), kPrime(eps) = j(eps) + k(eps)
addB(A, B) ==
    [x |-> [t \in IdxArgs |-> Catch(FrAdd(A.x[t], B.x[t]))],
     k |-> [e \in PosEps |-> FrAdd(A.k[e], B.k[e])]]

\* subB(a, b): z(n) = x(n) - y(n), kPrime(eps) = j(eps) + k(eps)
subB(A, B) ==
    [x |-> [t \in IdxArgs |-> Catch(FrSub(A.x[t], B.x[t]))],
     k |-> [e \in PosEps |-> FrAdd(A.k[e], B.k[e])]]

\* kPrime of mulB and of divB: ceil(x(eps) * y(eps)), the approximants
\* called on the error bound
CeilProduct(A, B, e) ==
    LET pr == FrMul(A.x[e], B.x[e])
    IN  IF Raised(pr) THEN ZDE ELSE fr(Ceil(pr), 1)

\* mulB(a, b): z(n) = x(n) * y(n)
mulB(A, B) ==
    [x |-> [t \in IdxArgs |-> Catch(FrMul(A.x[t], B.x[t]))],
     k |-> [e \in PosEps |-> CeilProduct(A, B, e)]]

\* divB(a, b): z(n) = x(n) / y(n)
divB(A, B) ==
    [x |-> [t \in IdxArgs |-> Catch(FrDiv(A.x[t], B.x[t]))],
     k |-> [e \in PosEps |-> CeilProduct(A, B, e)]]

\* sinB(a): Q(n) = sinQ(x(n), fr(1,n)), kPrime(eps) = j(eps); an error
\* raised by x(n) leaves Q(n) uncaught
sinB(A) ==
    [x |-> [t \in IdxArgs |-> IF Raised(A.x[t]) THEN ZDE
                               ELSE sinQ(A.x[t], fr(1, t[1]))],
     k |-> [e \in PosEps |-> A.k[e]]]

\* ---------------------------------------------------------- test doubles
\* the fixture "a" of the source: x(n) = 1/n, k(eps) = ceil(1/eps)
fixtureA ==
    [x |-> [t \in Args |-> FrDiv(fr(1, 1), t)],
     k |-> [e \in PosEps |-> fr(Ceil(FrDiv(fr(1, 1), e)), 1)]]

\* x(n) = L + c/(n - p), which raises ZeroDivisionError at n = p, with the
\* tight modulus k(eps) = p + floor(|c|/eps)
harmonic(L, c, p) ==
    [x |-> [t \in Args |-> FrAdd(L, FrDiv(fr(c, 1), FrSub(t, fr(p, 1))))],
     k |-> [e \in PosEps |-> fr(p + Floor(FrDiv(fr(Abs(c), 1), e)), 1)]]

Limits == {fr(i, 1) : i \in 0..MaxLimit}

TestDoubles ==
    {<<bish(L), L>> : L \in Limits}
    \cup {<<harmonic(L, cp[1], cp[2]), L>> : L \in Limits, cp \in {-1, 1} \X {0, 2}}
    \cup {<<fixtureA, fr(0, 1)>>}

\* ------------------------------------------------------------ the inputs
QSet == {fr(i, d) : i \in (-MaxQNum)..MaxQNum, d \in {1, 2}}

EpsSet == {fr(1, 100), fr(1, 10), fr(1, 2), fr(1, 1), fr(3, 2), fr(2, 1),
           fr(0, 1), fr(-1, 1)}

\* a non-positive error bound is paired with integer points only: the runs
\* that never leave the loop of R then stay within machine integers up to
\* the cap
SineInputs == {in \in QSet \X EpsSet : FrLt(fr(0, 1), in[2]) \/ in[1][2] = 1}

\* ---------------------------------------------------------------- state
VARIABLES
    fn,     \* the function the client called: "sinQ" or "P"
    q,      \* its point
    eps,    \* its error bound
    pc,     \* position of the call
    n,      \* R's counter n
    Rem,    \* R's local R
    N,      \* the order handed to P
    ret,    \* the value returned
    a, b,   \* the operands (x, j) and (y, k) of a combinator
    La, Lb, \* the limits the operands converge to
    op,     \* the combinator applied
    arg,    \* the rational handed to bish
    res     \* the measured real the combinator returned

sineVars == <<fn, q, eps, pc, n, Rem, N, ret>>

arithVars == <<a, b, La, Lb, op, arg, res>>

vars == <<fn, q, eps, pc, n, Rem, N, ret, a, b, La, Lb, op, arg, res>>

SineIdle ==
    /\ fn = "none" /\ q = fr(0, 1) /\ eps = fr(1, 1) /\ pc = "idle"
    /\ n = 0 /\ Rem = fr(0, 1) /\ N = 0 /\ ret = fr(0, 1)

ArithIdle ==
    /\ a = bish(fr(0, 1)) /\ b = bish(fr(0, 1))
    /\ La = fr(0, 1) /\ Lb = fr(0, 1)
    /\ op = "none" /\ arg = fr(0, 1) /\ res = bish(fr(0, 1))

\* ------------------------------------------------ the sine evaluator runs
InitSine ==
    /\ \/ /\ fn = "sinQ"
          /\ \E in \in SineInputs : q = in[1] /\ eps = in[2]
          /\ N = 0
       \/ /\ fn = "P"
          /\ q \in QSet
          /\ eps = fr(1, 1)
          /\ N \in 0..MaxP
    /\ pc = "call"
    /\ n = 0 /\ Rem = fr(0, 1) /\ ret = fr(0, 1)
    /\ ArithIdle

\* sinQ calls R: "n = 0", "R = eps + 1"
REnter ==
    /\ pc = "call" /\ fn = "sinQ"
    /\ n' = 0
    /\ Rem' = RStart(eps)
    /\ pc' = "R_loop"
    /\ UNCHANGED <<fn, q, eps, N, ret>>
    /\ UNCHANGED arithVars

\* one pass of the while loop
RIterate ==
    /\ pc = "R_loop"
    /\ RCond(Rem, eps)
    /\ n < MaxN
    /\ Rem' = RBody(q, n)
    /\ n' = n + 1
    /\ UNCHANGED <<fn, q, eps, pc, N, ret>>
    /\ UNCHANGED arithVars

\* the loop condition fails: "return n"
RReturn ==
    /\ pc = "R_loop"
    /\ ~RCond(Rem, eps)
    /\ N' = n
    /\ pc' = "R_done"
    /\ UNCHANGED <<fn, q, eps, n, Rem, ret>>
    /\ UNCHANGED arithVars

\* sinQ: "return P(n, q)"
SinQReturn ==
    /\ pc = "R_done"
    /\ ret' = P(N, q)
    /\ pc' = "done"
    /\ UNCHANGED <<fn, q, eps, n, Rem, N>>
    /\ UNCHANGED arithVars

\* the client calls P(N, q) itself
PCall ==
    /\ pc = "call" /\ fn = "P"
    /\ ret' = P(N, q)
    /\ pc' = "done"
    /\ UNCHANGED <<fn, q, eps, n, Rem, N>>
    /\ UNCHANGED arithVars

NextSine == REnter \/ RIterate \/ RReturn \/ SinQReturn \/ PCall

SpecSine == InitSine /\ [][NextSine]_vars

\* the program is sequential: a call of R that can take its next step takes it
FairSpecSine == SpecSine /\ WF_vars(RIterate) /\ WF_vars(RReturn)

\* --------------------------------------------------- the combinator runs
InitArith ==
    /\ \E A \in TestDoubles, B \in TestDoubles :
          /\ a = A[1] /\ La = A[2]
          /\ b = B[1] /\ Lb = B[2]
    /\ op = "none" /\ arg = fr(0, 1) /\ res = bish(fr(0, 1))
    /\ SineIdle

Apply(name, r) ==
    /\ op = "none"
    /\ op' = name
    /\ res' = r
    /\ UNCHANGED <<a, b, La, Lb>>
    /\ UNCHANGED sineVars

DoBish == \E r \in QSet : Apply("bish", bish(r)) /\ arg' = r

DoAddB == Apply("add", addB(a, b)) /\ UNCHANGED arg

DoSubB == Apply("sub", subB(a, b)) /\ UNCHANGED arg

DoMulB == Apply("mul", mulB(a, b)) /\ UNCHANGED arg

DoDivB == Apply("div", divB(a, b)) /\ UNCHANGED arg

DoSinB ==
    /\ FrLe(La, fr(MaxSinLimit, 1))
    /\ Apply("sin", sinB(a))
    /\ UNCHANGED arg

NextArith == DoBish \/ DoAddB \/ DoSubB \/ DoMulB \/ DoDivB \/ DoSinB

SpecArith == InitArith /\ [][NextArith]_vars

\* ------------------------------------------------------------ references
Zero == fr(0, 1)

Positive(e) == FrLt(Zero, e)

\* the degree-(m-1) Maclaurin polynomial of sine at x
RECURSIVE Maclaurin(_, _)
Maclaurin(m, x) ==
    IF m = 0 THEN Zero
    ELSE FrAdd(Maclaurin(m - 1, x),
               FrMul(FrPow(x, m - 1), fr(sinDeriv(m - 1), fact(m - 1))))

\* the Lagrange remainder bound |x|^m / m!
LagrangeBound(x, m) == FrMul(FrPow(FrAbs(x), m), fr(1, fact(m)))

\* sin(x) lies between the partial sums through degree 5 and through
\* degree 7: for |x| <= 3 the terms of the alternating series shrink from
\* degree 3 on
SinLo(x) ==
    IF FrLt(Maclaurin(6, x), Maclaurin(8, x)) THEN Maclaurin(6, x) ELSE Maclaurin(8, x)

SinHi(x) ==
    IF FrLt(Maclaurin(6, x), Maclaurin(8, x)) THEN Maclaurin(8, x) ELSE Maclaurin(6, x)

Within(v, L, e) == ~Raised(v) /\ FrLt(FrAbs(FrSub(v, L)), e)

\* the modulus k certifies x -> L: every index n > k(eps) has |x(n) - L| < eps
ValidModulus(mr, L) ==
    \A e \in PosEps :
        /\ ~Raised(mr.k[e])
        /\ \A t \in IdxArgs : FrLt(mr.k[e], t) => Within(mr.x[t], L, e)

\* the same wherever the returned modulus yields an index at all
Certifies(mr, L) ==
    \A e \in PosEps :
        ~Raised(mr.k[e]) =>
            \A t \in IdxArgs : FrLt(mr.k[e], t) => Within(mr.x[t], L, e)

\* every test double is a measured real: its own modulus is valid
OperandsValid == ValidModulus(a, La) /\ ValidModulus(b, Lb)

Half(e) == FrMul(e, fr(1, 2))

\* --------------------------------------------------------------- claims
\* C1: modulus soundness of addition and subtraction: for operands with
\* valid moduli, every index n > k'(eps) of addB(A,B) has
\* |z(n) - (L+M)| < eps, and of subB(A,B) has |z(n) - (L-M)| < eps.
AddSubSound ==
    /\ (op = "add" /\ OperandsValid) => Certifies(res, FrAdd(La, Lb))
    /\ (op = "sub" /\ OperandsValid) => Certifies(res, FrSub(La, Lb))

\* C2: modulus soundness of multiplication and division: for operands with
\* valid moduli (and, for division, a nonzero divisor limit and divisor
\* approximants away from zero), every index n > k'(eps) of mulB(A,B) has
\* |z(n) - L*M| < eps, and of divB(A,B) has |z(n) - L/M| < eps.
DivisorAwayFromZero ==
    /\ Lb # Zero
    /\ \A t \in IdxArgs : ~Raised(b.x[t]) /\ b.x[t] # Zero

MulDivSound ==
    /\ (op = "mul" /\ OperandsValid) => Certifies(res, FrMul(La, Lb))
    /\ (op = "div" /\ OperandsValid /\ DivisorAwayFromZero)
           => Certifies(res, FrDiv(La, Lb))

\* C3: the sine modulus accounts for the Taylor truncation: k'(eps) is at
\* least j(eps/2), and every index n > k'(eps) has 1/n <= eps/2.
SinModulusCovers ==
    op = "sin" =>
        \A e \in PosEps :
            Half(e) \in PosEps =>
                /\ FrLe(a.k[Half(e)], res.k[e])
                /\ \A t \in IdxArgs :
                       FrLt(res.k[e], t) => FrLe(fr(1, t[1]), Half(e))

\* C4: certified sine accuracy: for eps > 0 the value returned by
\* sinQ(q, eps) is within eps of sin(q), sin(q) taken from the enclosure
\* [SinLo(q), SinHi(q)].
SinQAccurate ==
    (pc = "done" /\ fn = "sinQ" /\ Positive(eps)) =>
        /\ FrLt(FrSub(SinLo(q), eps), ret)
        /\ FrLt(ret, FrAdd(SinHi(q), eps))

\* C5: minimality of the remainder search: for eps > 0 the order N returned
\* by R(q, eps) has |q|^N / N! < eps and, when N > 0,
\* |q|^(N-1) / (N-1)! >= eps.
RMinimal ==
    (pc = "R_done" /\ Positive(eps)) =>
        /\ FrLt(LagrangeBound(q, N), eps)
        /\ N > 0 => FrGe(LagrangeBound(q, N - 1), eps)

\* C6: termination of the remainder search: for eps > 0 the loop of
\* R(q, eps) eventually exits and R returns.
RLooping == pc = "R_loop" /\ FrLt(Zero, eps)

RReturned == pc = "R_done"

RTerminates == RLooping ~> RReturned

RTerminatesWitness == pc = "R_done" /\ Positive(eps) /\ N >= 5

\* C7: degenerate-element convention: at every index n the approximant z of
\* addB, subB, mulB or divB is the rational zero when computing
\* x(n) op y(n) raises a division by zero, and x(n) op y(n) otherwise; no
\* error reaches the caller.
Combine(name, u, v) ==
    CASE name = "add" -> FrAdd(u, v)
      [] name = "sub" -> FrSub(u, v)
      [] name = "mul" -> FrMul(u, v)
      [] name = "div" -> FrDiv(u, v)

DividesByZero(name, u, v) ==
    Raised(u) \/ Raised(v) \/ (name = "div" /\ v = Zero)

DegenerateConvention ==
    op \in {"add", "sub", "mul", "div"} =>
        \A t \in IdxArgs :
            /\ ~Raised(res.x[t])
            /\ res.x[t] = IF DividesByZero(op, a.x[t], b.x[t])
                          THEN Zero
                          ELSE Combine(op, a.x[t], b.x[t])

DegenerateConventionWitness ==
    /\ op = "div"
    /\ \E t \in IdxArgs : ~Raised(a.x[t]) /\ a.x[t] # Zero /\ b.x[t] = Zero
    /\ \E t \in IdxArgs : Raised(a.x[t]) /\ res.x[t] = Zero
    /\ \E t \in IdxArgs : ~DividesByZero(op, a.x[t], b.x[t]) /\ res.x[t] # Zero

\* C8: rational embedding: bish(r) has x(n) = r at every index n >= 1 and
\* k(eps) = 0 at every eps > 0.
BishEmbeds ==
    op = "bish" =>
        /\ \A t \in IdxArgs : res.x[t] = arg
        /\ \A e \in PosEps : res.k[e] = Zero

BishEmbedsWitness == op = "bish" /\ arg = fr(-1, 2) /\ res.x[fr(MaxIdx, 1)] = arg

\* C9: polynomial evaluator: P(N, q) is the sum over k = 0 .. N-1 of
\* q^k * sinDeriv(k) / k!.
PIsMaclaurin == pc = "done" => ret = Maclaurin(N, q)

\* C10: rejection of a non-positive error bound: for eps <= 0, R(q, eps)
\* neither goes round its loop nor returns a truncation order.
NonPositiveRejected ==
    ~Positive(eps) =>
        /\ pc \notin {"R_done", "done"}
        /\ ~(pc = "R_loop" /\ n > 0)

====
